---- MODULE Spec2Model ----
(***************************************************************************)
(* Model of the two particle kernels of the repository:                    *)
(*   - MergingVranic::operator()      (src/src/Merging/MergingVranic.cpp)  *)
(*   - RadiationMonteCarlo::operator() and ::photonEmission                *)
(*                              (src/src/Radiation/RadiationMonteCarlo.cpp)*)
(* The merger is modelled in exact rational arithmetic (Spec); the         *)
(* radiation kernel is added below under its own specification.            *)
(***************************************************************************)
EXTENDS Integers, Sequences, FiniteSets, TLC

(***************************************************************************)
(* Exact rational arithmetic: a double of the merger is a record           *)
(* [n |-> numerator, d |-> denominator > 0] in lowest terms.               *)
(* An operator binds its arguments in a set constructor or a quantifier    *)
(* before it uses them, so that each is evaluated once.                    *)
(***************************************************************************)
Abs(x) == IF x < 0 THEN -x ELSE x

RECURSIVE GCD(_, _)
GCD(a, b) == IF b = 0 THEN a ELSE CHOOSE g \in {GCD(b, r) : r \in {a % b}} : TRUE

Rat(n, d) ==
    CHOOSE q \in UNION { { [n |-> (IF y < 0 THEN -x ELSE x) \div g, d |-> Abs(y) \div g] :
                             g \in {GCD(Abs(x), Abs(y))} } : x \in {n}, y \in {d} } : TRUE

Zero == Rat(0, 1)
One == Rat(1, 1)
RInt(k) == Rat(k, 1)
\* the operations reduce before they multiply, to keep the integers small
RAdd(a, b) ==
    CHOOSE q \in UNION { { Rat(x.n * (y.d \div g) + y.n * (x.d \div g), (x.d \div g) * y.d) :
                             g \in {GCD(x.d, y.d)} } : x \in {a}, y \in {b} } : TRUE
RNeg(a) == CHOOSE q \in { [n |-> -x.n, d |-> x.d] : x \in {a} } : TRUE
RSub(a, b) == RAdd(a, RNeg(b))
RMul(a, b) ==
    CHOOSE q \in UNION { { Rat((x.n \div g1) * (y.n \div g2), (x.d \div g2) * (y.d \div g1)) :
                             g1 \in {GCD(Abs(x.n), y.d)}, g2 \in {GCD(Abs(y.n), x.d)} } :
                         x \in {a}, y \in {b} } : TRUE
RDiv(a, b) == CHOOSE q \in { RMul(x, Rat(y.d, y.n)) : x \in {a}, y \in {b} } : TRUE
RLt(a, b) == \E x \in {a}, y \in {b} : x.n * y.d < y.n * x.d
RLeq(a, b) == \E x \in {a}, y \in {b} : x.n * y.d <= y.n * x.d
RFloor(a) == CHOOSE q \in { x.n \div x.d : x \in {a} } : TRUE
RMin(a, b) == CHOOSE q \in { IF RLt(y, x) THEN y ELSE x : x \in {a}, y \in {b} } : TRUE

RECURSIVE SqrtSearch(_, _, _)
SqrtSearch(n, lo, hi) ==
    IF lo = hi THEN lo
    ELSE CHOOSE s \in { IF mid * mid <= n THEN SqrtSearch(n, mid, hi)
                        ELSE SqrtSearch(n, lo, mid - 1) :
                        mid \in {(lo + hi + 1) \div 2} } : TRUE

\* floor of the square root of a natural number
ISqrt(n) == CHOOSE s \in { SqrtSearch(x, 0, IF x < 46340 THEN x ELSE 46340) : x \in {n} } : TRUE
IsSquare(r) ==
    \E x \in {r} : \E sn \in {ISqrt(x.n)}, sd \in {ISqrt(x.d)} : sn * sn = x.n /\ sd * sd = x.d
\* sqrt of a rational that is the square of a rational
RSqrt(r) == CHOOSE q \in { Rat(ISqrt(x.n), ISqrt(x.d)) : x \in {r} } : TRUE

\* 3-vectors of rationals
VDot(u, v) ==
    CHOOSE q \in { RAdd(RAdd(RMul(x[1], y[1]), RMul(x[2], y[2])), RMul(x[3], y[3])) :
                   x \in {u}, y \in {v} } : TRUE
VScale(k, v) ==
    CHOOSE q \in { <<RMul(c, y[1]), RMul(c, y[2]), RMul(c, y[3])>> :
                   c \in {k}, y \in {v} } : TRUE
VAdd(u, v) ==
    CHOOSE q \in { <<RAdd(x[1], y[1]), RAdd(x[2], y[2]), RAdd(x[3], y[3])>> :
                   x \in {u}, y \in {v} } : TRUE
VZero == <<Zero, Zero, Zero>>

(***************************************************************************)
(* unsigned int arithmetic modulo 2^32.  A value v is kept as [s, h] with  *)
(* v = s + h * 2^31 (mod 2^32), s a small signed integer and h in {0, 1}:  *)
(* 2^32 - 1 is [s |-> -1, h |-> 0] and 2^31 is [s |-> 0, h |-> 1].         *)
(***************************************************************************)
U(s) == [s |-> s, h |-> 0]
UMul(u, k) == [s |-> u.s * k, h |-> (u.h * k) % 2]
UAdd(u, v) == [s |-> u.s + v.s, h |-> (u.h + v.h) % 2]
UInRange(u, size) == u.h = 0 /\ u.s >= 0 /\ u.s < size

(***************************************************************************)
(* Bounds of the model and the particle catalogue.                         *)
(***************************************************************************)
MaxParts == 12
\* most particles of each kind but the first
MaxOther == 1

\* merging_ppc_min_threshold_ values of the species
Thresholds == {0, 4}

\* A particle kind: momentum along one axis with |p| on the Pythagorean
\* ladder (sqrt(1 + p^2) is rational), and a weight.
Kind(ax, sg, pn, pd, w) ==
    [p |-> [c \in 1..3 |-> IF c = ax THEN Rat(sg * pn, pd) ELSE Zero], w |-> RInt(w)]

Kinds ==
    << Kind(1, 1, 3, 4, 1),      \* ( 3/4, 0, 0), gamma 5/4
       Kind(1, 1, 5, 12, 1),     \* ( 5/12, 0, 0), gamma 13/12
       Kind(1, 1, 35, 12, 1),    \* ( 35/12, 0, 0), gamma 37/12
       Kind(1, 1, 3, 4, 2),      \* ( 3/4, 0, 0), weight 2
       Kind(2, 1, 3, 4, 1),      \* ( 0, 3/4, 0)
       Kind(3, 1, 3, 4, 1) >>    \* ( 0, 0, 3/4)

RECURSIVE SumTo(_, _)
SumTo(cnt, k) == IF k = 0 THEN 0 ELSE cnt[k] + SumTo(cnt, k - 1)

\* how many particles of each kind: up to MaxParts in all
Populations ==
    { cnt \in { <<c>> \o o : c \in 0..MaxParts,
                               o \in [1..(Len(Kinds) - 1) -> 0..MaxOther] } :
        SumTo(cnt, Len(Kinds)) <= MaxParts }

RECURSIVE Expand(_, _)
\* the population holding cnt[j] particles of kind j, kind after kind
Expand(cnt, k) ==
    IF k = 0 THEN << >>
    ELSE Expand(cnt, k - 1) \o [j \in 1..cnt[k] |-> Kinds[k]]

VARIABLES
    \* the particle store and the call, shared by the two kernels
    momentum,                       \* particles.momentum(d, i), i from 0
    weight,                         \* particles.weight(i)
    istart, iend,                   \* the range of the call
    pc,                             \* where the call is
    entry,                          \* history: the particle columns at the call
    \* the merger
    cell_keys,                      \* particles.cell_keys[i]
    merging_ppc_min_threshold_,
    dimensions_,                    \* Merging::dimensions_[3]
    momentum_cell_index,            \* per particle of the range: flattened key
    particles_per_momentum_cells,
    momentum_cell_particle_index,
    sorted_particles,
    cell_vec,                       \* per direction index icc: bin-centre angles
    loop_cell, ipack,               \* the merge loops: cell number, next packet
    packets,                        \* history: one record per merged packet
    \* the radiation kernel
    tau, chi, position,             \* particles.tau(i), .chi(i), .position(d, i)
    Epart, ipart_ref,               \* the field samples, indexed by ipart - ipart_ref
    photon_species,                 \* TRUE when a photon species is attached
    radiation_photon_sampling_,
    radiation_photon_gamma_threshold_,
    new_photons_,                   \* the staging buffer, a sequence of photons
    isQuantumParameter, isMonteCarlo,   \* new_photons_ has a chi, a tau column
    radiated_energy,                \* the caller's accumulator
    radiated_energy_loc,
    ipart, local_it_time, mc_it_nb, \* the particle loop and its scratch
    nb_substeps,                    \* history: bodies of the while loop run for ipart
    events,                         \* history: one record per emission, discontinuous or continuous
    \* the merging factory
    merging_method_,                \* species->merging_method_, one per species
    Merge,                          \* what MergingFactory::create returned, per species
    \* the caller
    first_call                      \* history: what an earlier call of the kernel left

merger_vars ==
    << cell_keys, merging_ppc_min_threshold_, dimensions_, momentum_cell_index,
       particles_per_momentum_cells, momentum_cell_particle_index, sorted_particles,
       cell_vec, loop_cell, ipack, packets >>

radiation_vars ==
    << tau, chi, position, Epart, ipart_ref, photon_species, radiation_photon_sampling_,
       radiation_photon_gamma_threshold_, new_photons_, isQuantumParameter,
       isMonteCarlo, radiated_energy, radiated_energy_loc, ipart, local_it_time,
       mc_it_nb, nb_substeps, events >>

factory_vars == << merging_method_, Merge >>

vars ==
    << momentum, weight, istart, iend, pc, entry, merger_vars, radiation_vars,
       factory_vars, first_call >>

\* no earlier call
NoCall == << >>

(***************************************************************************)
(* MergingFactory::create.  A method name is a sequence of characters;     *)
(* std::string compares lengths and then the characters, one by one.       *)
(***************************************************************************)
\* most species handed to the factory
MaxSpecies == 2

\* the literal "vranic"
Vranic == <<"v", "r", "a", "n", "i", "c">>

\* a comparison of the first characters only
StartsWith(a, b) ==
    Len(a) >= Len(b) /\ \A k \in 1..Len(b) : a[k] = b[k]
\* operator==( const std::string &, const char * )
StringEquals(a, b) ==
    Len(a) = Len(b) /\ \A k \in 1..Len(a) : a[k] = b[k]

\* the result of a call: the merger returned and whether anything was thrown
create(merging_method) ==
    [merger |-> IF StringEquals(merging_method, Vranic) THEN "MergingVranic" ELSE "NULL",
     raised |-> FALSE]

UpperCase(c) ==
    CASE c = "v" -> "V" [] c = "r" -> "R" [] c = "a" -> "A"
      [] c = "n" -> "N" [] c = "i" -> "I" [] c = "c" -> "C" [] OTHER -> c

\* the method names of the species: "vranic" and the names one edit away
\* from it, the empty name and other names
MethodNames ==
    {Vranic, << >>, <<"n", "o", "n", "e">>, <<"v">>,
     <<"V", "R", "A", "N", "I", "C">>, Vranic \o <<"_", "v", "2">>}
    \cup { [k \in 1..(Len(Vranic) - 1) |-> IF k < d THEN Vranic[k] ELSE Vranic[k + 1]] \o << >> :
             d \in 1..Len(Vranic) }
    \cup { [k \in 1..Len(Vranic) |-> IF k = d THEN UpperCase(Vranic[k]) ELSE Vranic[k]] \o << >> :
             d \in 1..Len(Vranic) }
    \cup { Vranic \o <<c>> : c \in {" ", "s", "c"} }
    \cup { <<c>> \o Vranic : c \in {" ", "v", "_"} }

\* the factory is not running
FactoryUnused == merging_method_ = << >> /\ Merge = << >>

(***************************************************************************)
(* Angles are kept in quarter turns (pi/2), exactly: atan2 and asin of the *)
(* axis-aligned momenta of the catalogue are whole quarter turns.          *)
(***************************************************************************)
Atan2(y, x) ==
    CASE y.n = 0 /\ x.n >= 0 -> RInt(0)
      [] y.n = 0 /\ x.n < 0 -> RInt(2)
      [] x.n = 0 /\ y.n > 0 -> RInt(1)
      [] x.n = 0 /\ y.n < 0 -> RInt(-1)

Asin(r) ==
    CASE r = Zero -> RInt(0)
      [] r = One -> RInt(1)
      [] r = RNeg(One) -> RInt(-1)

\* a momentum double triple of the store: value v + sgn * sqrt(perp2) * e2,
\* where e2 is the unit-free vector d - (e1.d) e1 of the bin direction d
\* (angles d[1], d[2]); nan marks three NaN components
Exact(v) == [nan |-> FALSE, v |-> v, perp2 |-> Zero, sgn |-> 0, d |-> <<Zero, Zero>>]
NaNMomentum == [nan |-> TRUE, v |-> VZero, perp2 |-> Zero, sgn |-> 0, d |-> <<Zero, Zero>>]

\* sqrt(px^2 + py^2 + pz^2) of particle i
MomentumNorm(i) == RSqrt(VDot(momentum[i].v, momentum[i].v))
\* sqrt(1 + px^2 + py^2 + pz^2) of particle i
Energy(i) == RSqrt(RAdd(One, VDot(momentum[i].v, momentum[i].v)))
ParticleTheta(i) == Atan2(momentum[i].v[2], momentum[i].v[1])
ParticlePhi(i) == Asin(RDiv(momentum[i].v[3], MomentumNorm(i)))

MinOf(S) == CHOOSE x \in S : \A y \in S : RLeq(x, y)
MaxOf(S) == CHOOSE x \in S : \A y \in S : RLeq(y, x)

Range == istart..(iend - 1)

\* dimensions_[0..2] as set at the top of the call
GridSize == 5
momentum_cells == GridSize * GridSize * GridSize
\* computed from dimensions_ before any axis collapses
momentum_angular_cells == GridSize * GridSize

\* the maximum, inflated by 1% of the range
Inflate(mx, mn) == RAdd(mx, RMul(RSub(mx, mn), Rat(1, 100)))

\* "delta < 1e-10": a positive rational of the model has a denominator far
\* below 10^10, so it is below 1e-10 only when it is not positive
BelowCollapseThreshold(delta) == delta.n <= 0

\* second step: a delta, set to 0 when the axis collapses
Delta(mx, mn) ==
    LET delta == RDiv(RSub(mx, mn), RInt(GridSize))
    IN  IF BelowCollapseThreshold(delta) THEN Zero ELSE delta

\* first and second step: minima, inflated maxima, deltas and dimensions_
\* after the collapse test, over the range of the call
Discretization ==
    LET norms == {MomentumNorm(i) : i \in Range}
        thetas == {ParticleTheta(i) : i \in Range}
        phis == {ParticlePhi(i) : i \in Range}
        mr_min == MinOf(norms)
        theta_min == MinOf(thetas)
        phi_min == MinOf(phis)
        mr_delta == Delta(Inflate(MaxOf(norms), mr_min), mr_min)
        theta_delta == Delta(Inflate(MaxOf(thetas), theta_min), theta_min)
        phi_delta == Delta(Inflate(MaxOf(phis), phi_min), phi_min)
    IN  [mr_min |-> mr_min, theta_min |-> theta_min, phi_min |-> phi_min,
         mr_delta |-> mr_delta, theta_delta |-> theta_delta, phi_delta |-> phi_delta,
         dimensions |-> << IF mr_delta = Zero THEN 1 ELSE GridSize,
                           IF theta_delta = Zero THEN 1 ELSE GridSize,
                           IF phi_delta = Zero THEN 1 ELSE GridSize >>]

\* (unsigned int) of a NaN double is undefined: the x86-64 scalar conversion
\* gives 0, the packed SSE2 conversion 2^31, the AVX-512 unsigned one 2^32-1
NaNToUInt == { U(0), [s |-> 0, h |-> 1], U(-1) }

\* (unsigned int)((value - min) / delta); 0/0 on a collapsed axis is NaN
BinIndex(value, mn, delta, nan) ==
    IF delta = Zero THEN nan ELSE U(RFloor(RDiv(RSub(value, mn), delta)))

\* a key that leaves out the theta index
CellIndexWithoutTheta(i, disc, nan) ==
    LET mr_i == BinIndex(MomentumNorm(i), disc.mr_min, disc.mr_delta, nan)
        phi_i == BinIndex(ParticlePhi(i), disc.phi_min, disc.phi_delta, nan)
    IN  UAdd(UMul(mr_i, disc.dimensions[2] * disc.dimensions[3]), phi_i)

\* 1D index of particle i in the discretization disc
CellIndex(i, disc, nan) ==
    LET mr_i == BinIndex(MomentumNorm(i), disc.mr_min, disc.mr_delta, nan)
        theta_i == BinIndex(ParticleTheta(i), disc.theta_min, disc.theta_delta, nan)
        phi_i == BinIndex(ParticlePhi(i), disc.phi_min, disc.phi_delta, nan)
    IN  UAdd(UAdd(UMul(mr_i, disc.dimensions[2] * disc.dimensions[3]),
                  UMul(theta_i, disc.dimensions[3])),
             phi_i)

\* the bin-centre angles of direction icc; entries the loop does not reach
\* keep the zero vector the arrays are filled with
CellVec(disc) ==
    [icc \in 0..(momentum_angular_cells - 1) |->
        IF icc < disc.dimensions[2] * disc.dimensions[3]
        THEN LET theta_i == icc \div disc.dimensions[3]
                 phi_i == icc % disc.dimensions[3]
             IN  [set |-> TRUE,
                  theta |-> RAdd(disc.theta_min,
                                 RMul(Rat(2 * theta_i + 1, 2), disc.theta_delta)),
                  phi |-> RAdd(disc.phi_min,
                               RMul(Rat(2 * phi_i + 1, 2), disc.phi_delta))]
        ELSE [set |-> FALSE, theta |-> Zero, phi |-> Zero]]

ZeroCells == [ic \in 0..(momentum_cells - 1) |-> 0]

RECURSIVE Histogram(_, _, _)
\* particles_per_momentum_cells[momentum_cell_index[ip]] += 1, ip from 1
Histogram(keys, ip, ppmc) ==
    IF ip > Len(keys) THEN ppmc
    ELSE Histogram(keys, ip + 1, [ppmc EXCEPT ![keys[ip].s] = @ + 1])

\* the sum of the counts of the cells from..to
SumCounts(counted, from, to) ==
    Cardinality(UNION {{<<j, c>> : c \in 1..counted[j]} : j \in from..to})

\* a prefix sum that adds the count of the cell itself
PrefixSumInclusive(counted) ==
    [ic \in 0..(momentum_cells - 1) |-> SumCounts(counted, 0, ic)]

\* momentum_cell_particle_index[ic] = [ic-1] + particles_per_momentum_cells[ic-1]
\* for ic = 1 .. momentum_cells - 1, from index[0] = 0: the sum of the counts
\* of the cells before ic
PrefixSum(counted) ==
    [ic \in 0..(momentum_cells - 1) |-> SumCounts(counted, 0, ic - 1)]

RECURSIVE Scatter(_, _, _, _, _)
\* fourth step: sorted_particles[index[ic] + ppmc[ic]] = istart + ip; ppmc[ic] += 1
Scatter(keys, index, ip, ppmc, sorted) ==
    IF ip > Len(keys) THEN [ppmc |-> ppmc, sorted |-> sorted]
    ELSE LET ic == keys[ip].s
         IN  Scatter(keys, index, ip + 1, [ppmc EXCEPT ![ic] = @ + 1],
                     [sorted EXCEPT ![index[ic] + ppmc[ic]] = istart + (ip - 1)])

(***************************************************************************)
(* The state after construction and the inputs of the call.                *)
(***************************************************************************)
\* the store: pad particles of a neighbouring cell, the cell's population,
\* pad more particles; the call is on the population
Store(cnt, pad) ==
    LET guard == [j \in 1..pad |-> Kinds[1]]
        all == guard \o Expand(cnt, Len(Kinds)) \o guard
    IN  [i \in 0..(Len(all) - 1) |-> all[i + 1]]

\* the radiation kernel is not running
RadiationUnused ==
    /\ tau = << >> /\ chi = << >> /\ position = << >> /\ Epart = << >>
    /\ ipart_ref = 0 /\ photon_species = FALSE
    /\ radiation_photon_sampling_ = 1 /\ radiation_photon_gamma_threshold_ = Zero
    /\ new_photons_ = << >> /\ isQuantumParameter = FALSE /\ isMonteCarlo = FALSE
    /\ radiated_energy = Zero /\ radiated_energy_loc = Zero
    /\ ipart = 0 /\ local_it_time = Zero /\ mc_it_nb = 0 /\ nb_substeps = 0
    /\ events = << >>

\* four unit-weight particles along +x, +y, -x and -y, with |p| = 1
CrossParticles ==
    << [p |-> <<One, Zero, Zero>>, w |-> One],
       [p |-> <<Zero, One, Zero>>, w |-> One],
       [p |-> <<RNeg(One), Zero, Zero>>, w |-> One],
       [p |-> <<Zero, RNeg(One), Zero>>, w |-> One] >>

\* the store holding them between pad particles of the neighbouring cells
CrossStore(pad) ==
    LET guard == [j \in 1..pad |-> Kinds[1]]
        all == guard \o CrossParticles \o guard
    IN  [i \in 0..(Len(all) - 1) |-> all[i + 1]]

\* the stores of the calls: the populations of the catalogue and the cross
Stores(pad) == {Store(cnt, pad) : cnt \in Populations} \cup {CrossStore(pad)}

Init ==
    /\ \E pad \in {0, 1}, thr \in Thresholds : \E store \in Stores(pad) :
        LET n == Cardinality(DOMAIN store)
        IN  /\ momentum = [i \in DOMAIN store |-> Exact(store[i].p)]
            /\ weight = [i \in DOMAIN store |-> store[i].w]
            /\ cell_keys = [i \in DOMAIN store |-> 0]
            /\ istart = pad
            /\ iend = n - pad
            /\ merging_ppc_min_threshold_ = thr
            /\ entry = [momentum |-> [i \in DOMAIN store |-> Exact(store[i].p)],
                        weight |-> [i \in DOMAIN store |-> store[i].w]]
    /\ dimensions_ = <<GridSize, GridSize, GridSize>>
    /\ pc = "ready"
    /\ momentum_cell_index = << >>
    /\ particles_per_momentum_cells = ZeroCells
    /\ momentum_cell_particle_index = ZeroCells
    /\ sorted_particles = << >>
    /\ cell_vec = << >>
    /\ loop_cell = 0
    /\ ipack = 0
    /\ packets = << >>
    /\ RadiationUnused
    \* the species asked for the Vranic merger and the factory installed it
    /\ merging_method_ = <<Vranic>>
    /\ Merge = <<create(Vranic)>>
    /\ first_call = NoCall

(***************************************************************************)
(* MergingVranic::operator(), up to the sort: the threshold test, the      *)
(* bounds, the discretization, the keys, the histogram and the scatter.    *)
(***************************************************************************)
\* a test that lets every non-empty range proceed
AnyParticles == iend - istart > 0

\* the test that lets the call proceed
EnoughParticles == iend - istart > merging_ppc_min_threshold_

\* third step: the flattened key of every particle of the range, from 1
Keys(disc, nan) ==
    [ip \in 1..(iend - istart) |-> CellIndex(istart + ip - 1, disc, nan)] \o << >>

\* fourth step: histogram, prefix sum (which resets the counts) and scatter
Sort(keys) ==
    LET counted == Histogram(keys, 1, ZeroCells)
        index == PrefixSum(counted)
        sc == Scatter(keys, index, 1, ZeroCells, [k \in 0..(Len(keys) - 1) |-> 0])
    IN  [counted |-> counted, index |-> index,
         ppmc |-> sc.ppmc, sorted |-> sc.sorted]

Enter ==
    /\ pc = "ready"
    /\ UNCHANGED << momentum, weight, cell_keys, istart, iend,
                    merging_ppc_min_threshold_, loop_cell, ipack, packets, entry >>
    /\ UNCHANGED << radiation_vars, factory_vars, first_call >>
    /\ IF ~EnoughParticles
       THEN /\ pc' = "done"
            /\ UNCHANGED << dimensions_, momentum_cell_index, cell_vec,
                            particles_per_momentum_cells,
                            momentum_cell_particle_index, sorted_particles >>
       ELSE \E nan \in NaNToUInt, disc \in {Discretization} :
            \E keys \in {Keys(disc, nan)} :
                /\ dimensions_' = disc.dimensions
                /\ cell_vec' = CellVec(disc)
                /\ momentum_cell_index' = keys
                /\ IF \E ip \in 1..Len(keys) : ~UInRange(keys[ip], momentum_cells)
                   THEN \* a histogram access outside the array
                        /\ pc' = "fault"
                        /\ UNCHANGED << particles_per_momentum_cells,
                                        momentum_cell_particle_index, sorted_particles >>
                   ELSE \E st \in {Sort(keys)} :
                        /\ pc' = "merge"
                        /\ particles_per_momentum_cells' = st.ppmc
                        /\ momentum_cell_particle_index' = st.index
                        /\ sorted_particles' = st.sorted

(***************************************************************************)
(* Fifth step: the loop over the momentum cells and their packets.         *)
(***************************************************************************)
\* the iterations of the three nested loops over mr_i, theta_i and phi_i,
\* numbered in the order they run; dimensions_[1..3] are dimensions_[0..2]
LoopCells == 0..(dimensions_[1] * dimensions_[2] * dimensions_[3] - 1)

\* icc = theta_i * dimensions_[2] + phi_i of iteration j
LoopIcc(j) == j % (dimensions_[2] * dimensions_[3])

\* ic = mr_i * momentum_angular_cells + icc of iteration j
LoopIc(j) == (j \div (dimensions_[2] * dimensions_[3])) * momentum_angular_cells + LoopIcc(j)

\* the number of packets of iteration j: none below 4 particles
NPack(j) ==
    IF particles_per_momentum_cells[LoopIc(j)] >= 4
    THEN particles_per_momentum_cells[LoopIc(j)] \div 4
    ELSE 0

\* the iterations that still have a packet to merge
CellsToMerge ==
    {j \in LoopCells : j >= loop_cell /\ NPack(j) > (IF j = loop_cell THEN ipack ELSE 0)}

\* cos and sin of a whole number of quarter turns
CosQ(a) == RInt(CASE a.n % 4 = 0 -> 1 [] a.n % 4 = 2 -> -1 [] OTHER -> 0)
SinQ(a) == RInt(CASE a.n % 4 = 1 -> 1 [] a.n % 4 = 3 -> -1 [] OTHER -> 0)
WholeAngles(cv) == cv.theta.d = 1 /\ cv.phi.d = 1
\* cell_vec_x, cell_vec_y, cell_vec_z of a direction with whole angles
CellDirection(cv) ==
    << RMul(CosQ(cv.phi), CosQ(cv.theta)), RMul(CosQ(cv.phi), SinQ(cv.theta)), SinQ(cv.phi) >>

\* e2 = e1 x (e1 x cell_vec) as the code expands it
E2(e1, d) ==
    << RAdd(RSub(RMul(RMul(e1[2], e1[2]), d[1]),
                 RMul(e1[1], RAdd(RMul(e1[2], d[2]), RMul(e1[3], d[3])))),
            RMul(RMul(e1[3], e1[3]), d[1])),
       RAdd(RSub(RMul(RMul(e1[3], e1[3]), d[2]),
                 RMul(e1[2], RAdd(RMul(e1[3], d[3]), RMul(e1[1], d[1])))),
            RMul(RMul(e1[1], e1[1]), d[2])),
       RAdd(RSub(RMul(RMul(e1[1], e1[1]), d[3]),
                 RMul(e1[3], RAdd(RMul(e1[1], d[1]), RMul(e1[2], d[2])))),
            RMul(RMul(e1[2], e1[2]), d[3])) >>

\* a bin direction with angles that are no whole quarter turns is parallel
\* to no axis, so e2 vanishes only for whole angles
E2IsZero(e1, cv) == WholeAngles(cv) /\ E2(e1, CellDirection(cv)) = VZero

\* a split that hands each survivor a quarter of the packet's weight
NewWeightQuarter(total_weight) == RMul(Rat(1, 4), total_weight)

\* 0.5 * total_weight
NewWeight(total_weight) == RMul(Rat(1, 2), total_weight)

\* total energy of the packet: the sum of sqrt(1 + p^2) over its members
TotalEnergy(members) ==
    RAdd(RAdd(Energy(members[1]), Energy(members[2])),
         RAdd(Energy(members[3]), Energy(members[4])))

TotalWeight(members) ==
    RAdd(RAdd(weight[members[1]], weight[members[2]]),
         RAdd(weight[members[3]], weight[members[4]]))

TotalMomentum(members) ==
    VAdd(VAdd(VScale(weight[members[1]], momentum[members[1]].v),
              VScale(weight[members[2]], momentum[members[2]].v)),
         VAdd(VScale(weight[members[3]], momentum[members[3]].v),
              VScale(weight[members[4]], momentum[members[4]].v)))

\* the momenta written to the first (sgn = 1) and second (sgn = -1) particle:
\* new_momentum_norm * (cos_omega * e1 + sgn * sin_omega * e2)
NewMomentum(total_weight, total_momentum, total_energy, cv, sgn) ==
    LET new_energy == RDiv(total_energy, total_weight)
        \* new_momentum_norm squared
        pa2 == RSub(RMul(new_energy, new_energy), One)
        total_momentum_norm == RSqrt(VDot(total_momentum, total_momentum))
        \* (total_momentum_norm / (total_weight * new_momentum_norm)) squared
        cos2 == RDiv(VDot(total_momentum, total_momentum),
                     RMul(RMul(total_weight, total_weight), pa2))
    IN  IF RLeq(pa2, Zero) THEN NaNMomentum              \* sqrt(<0), or x/0 into acos
        ELSE IF RLt(One, cos2) THEN NaNMomentum          \* acos of more than 1
        ELSE IF total_momentum_norm = Zero THEN NaNMomentum   \* e1 = 0/0
        ELSE LET \* new_momentum_norm * cos_omega
                 along == RDiv(total_momentum_norm, total_weight)
                 \* (new_momentum_norm * sin_omega) squared
                 perp2 == RMul(pa2, RSub(One, cos2))
                 e1 == VScale(RDiv(One, total_momentum_norm), total_momentum)
             IN  IF perp2 = Zero \/ E2IsZero(e1, cv)
                 THEN Exact(VScale(along, e1))
                 ELSE [nan |-> FALSE, v |-> VScale(along, e1), perp2 |-> perp2,
                       sgn |-> sgn, d |-> <<cv.theta, cv.phi>>]

\* what a read of sorted_particles at position pos yields: beyond the array
\* it is whatever the heap holds, an index of the store or not
Wild == -1
SortedAt(pos) ==
    IF pos < iend - istart THEN {sorted_particles[pos]}
    ELSE DOMAIN momentum \cup {Wild}

\* the position the tagging loop reads for member ip (2 or 3) of packet ipk
DeadPosition(ic, ipk, ip) ==
    momentum_cell_particle_index[ic] + ipk * 4 + (ipk * 4 + ip)

\* what the loop body computes for packet ipk of cell ic, direction icc
Packet(ic, icc, ipk) ==
    LET first == momentum_cell_particle_index[ic] + ipk * 4
        members == <<sorted_particles[first], sorted_particles[first + 1],
                     sorted_particles[first + 2], sorted_particles[first + 3]>>
        total_weight == TotalWeight(members)
        total_momentum == TotalMomentum(members)
        total_energy == TotalEnergy(members)
    IN  [ic |-> ic, ipack |-> ipk, members |-> members,
         w_in |-> <<weight[members[1]], weight[members[2]],
                    weight[members[3]], weight[members[4]]>>,
         p_in |-> <<momentum[members[1]].v, momentum[members[2]].v,
                    momentum[members[3]].v, momentum[members[4]].v>>,
         w_out |-> <<NewWeight(total_weight), NewWeight(total_weight)>>,
         p_out |-> <<NewMomentum(total_weight, total_momentum, total_energy,
                                 cell_vec[icc], 1),
                     NewMomentum(total_weight, total_momentum, total_energy,
                                 cell_vec[icc], -1)>>]

\* the first iteration of the cell loops that still has a packet to merge
NextCell == CHOOSE c \in CellsToMerge : \A o \in CellsToMerge : c <= o

\* one iteration of the loop over the packets
MergePacket ==
    /\ pc = "merge"
    /\ CellsToMerge # {}
    /\ \E j \in {NextCell} :
       \E ipk \in {IF j = loop_cell THEN ipack ELSE 0} :
       \E pk \in {Packet(LoopIc(j), LoopIcc(j), ipk)} :
       \E d2 \in SortedAt(DeadPosition(pk.ic, ipk, 2)),
          d3 \in SortedAt(DeadPosition(pk.ic, ipk, 3)) :
             /\ momentum' = [momentum EXCEPT ![pk.members[1]] = pk.p_out[1],
                                             ![pk.members[2]] = pk.p_out[2]]
             /\ weight' = [weight EXCEPT ![pk.members[1]] = pk.w_out[1],
                                         ![pk.members[2]] = pk.w_out[2]]
             /\ cell_keys' = [i \in DOMAIN cell_keys |->
                                 IF i \in {d2, d3} THEN -1 ELSE cell_keys[i]]
             /\ packets' = Append(packets, pk @@ [dead |-> <<d2, d3>>])
             /\ loop_cell' = j
             /\ ipack' = ipk + 1
             \* a write through an index that is no particle of the store
             /\ pc' = IF Wild \in {d2, d3} THEN "fault" ELSE "merge"
    /\ UNCHANGED << istart, iend, merging_ppc_min_threshold_, dimensions_,
                    momentum_cell_index, particles_per_momentum_cells,
                    momentum_cell_particle_index, sorted_particles, cell_vec, entry >>
    /\ UNCHANGED << radiation_vars, factory_vars, first_call >>

\* the loops have run out of packets
Return ==
    /\ pc = "merge"
    /\ CellsToMerge = {}
    /\ pc' = "done"
    /\ UNCHANGED << momentum, weight, cell_keys, istart, iend,
                    merging_ppc_min_threshold_, dimensions_, momentum_cell_index,
                    particles_per_momentum_cells, momentum_cell_particle_index,
                    sorted_particles, cell_vec, loop_cell, ipack, packets, entry >>
    /\ UNCHANGED << radiation_vars, factory_vars, first_call >>

Next == Enter \/ MergePacket \/ Return

Spec == Init /\ [][Next]_vars

(***************************************************************************)
(* Properties of the merger.                                               *)
(***************************************************************************)
\* the particles of the range whose flattened key is ic
InBin(ic) == {i \in Range : momentum_cell_index[i - istart + 1] = U(ic)}

\* the particles the call has rewritten as merged particles
Survivors ==
    {packets[k].members[1] : k \in 1..Len(packets)}
        \cup {packets[k].members[2] : k \in 1..Len(packets)}

\* no axis has collapsed: every bin index is a defined conversion
FullGrid == dimensions_ = <<GridSize, GridSize, GridSize>>

\* the call went past the threshold test, no axis collapsed, and it returned
ReturnedFromFullGrid == pc = "done" /\ EnoughParticles /\ FullGrid

\* C1: after a call on a range larger than the threshold, every momentum
\* bin that holds k particles has exactly 2*floor(k/4) of its particles
\* rewritten as merged survivors and exactly 2*floor(k/4) of its particles
\* tagged cell_keys = -1, for every k; stated here for the calls in which no
\* axis collapses.
MergerCount ==
    ReturnedFromFullGrid =>
        \A ic \in 0..(momentum_cells - 1) :
            LET k == Cardinality(InBin(ic))
            IN  /\ Cardinality(InBin(ic) \cap Survivors) = 2 * (k \div 4)
                /\ Cardinality({i \in InBin(ic) : cell_keys[i] = -1}) = 2 * (k \div 4)

Sum4(w) == RAdd(RAdd(w[1], w[2]), RAdd(w[3], w[4]))

\* C2: for every merged packet the two survivors each receive half the
\* packet's weight, so the two output weights sum to the four input weights.
WeightConservation ==
    \A k \in 1..Len(packets) :
        LET pk == packets[k]
        IN  /\ pk.w_out[1] = RMul(Rat(1, 2), Sum4(pk.w_in))
            /\ pk.w_out[2] = RMul(Rat(1, 2), Sum4(pk.w_in))
            /\ RAdd(pk.w_out[1], pk.w_out[2]) = Sum4(pk.w_in)
            /\ weight[pk.members[1]] = pk.w_out[1]
            /\ weight[pk.members[2]] = pk.w_out[2]

\* a returned call that merged a packet of unequal input weights
WeightConservationWitness ==
    /\ pc = "done"
    /\ \E k \in 1..Len(packets) : packets[k].w_in[1] # packets[k].w_in[4]

\* sum of w_in * p_in over the four members of a packet
MomentumIn(pk) ==
    VAdd(VAdd(VScale(pk.w_in[1], pk.p_in[1]), VScale(pk.w_in[2], pk.p_in[2])),
         VAdd(VScale(pk.w_in[3], pk.p_in[3]), VScale(pk.w_in[4], pk.p_in[4])))

\* the two survivors' perpendicular parts are opposite and carry the same
\* weight, so the sum of w_out * p_out is the sum of the parts along e1
MomentumOut(pk) ==
    VAdd(VScale(pk.w_out[1], pk.p_out[1].v), VScale(pk.w_out[2], pk.p_out[2].v))

\* C3: for every merged packet whose total momentum is not zero, the sum of
\* w_out * p_out over the two survivors equals, component by component, the
\* sum of w_in * p_in over the four members, for any input weights; stated
\* here for the calls in which no axis collapses.
MomentumConservation ==
    \A k \in 1..Len(packets) :
        LET pk == packets[k]
        IN  FullGrid /\ MomentumIn(pk) # VZero =>
                /\ ~pk.p_out[1].nan
                /\ ~pk.p_out[2].nan
                /\ MomentumOut(pk) = MomentumIn(pk)

\* sum of w_in * sqrt(1 + p_in^2) over the four members of a packet
EnergyIn(pk) ==
    LET e(k) == RMul(pk.w_in[k], RSqrt(RAdd(One, VDot(pk.p_in[k], pk.p_in[k]))))
    IN  RAdd(RAdd(e(1), e(2)), RAdd(e(3), e(4)))

CosIsZero(a) == a.d = 1 /\ a.n % 2 = 1
SinIsZero(a) == a.d = 1 /\ a.n % 2 = 0

\* v . d = 0 for a vector v along one axis and the direction d of angles
\* d[1] (theta) and d[2] (phi): then e2 = d - (e1 . d) e1 has norm 1
PerpendicularToDirection(v, d) ==
    /\ v[1] # Zero => CosIsZero(d[2]) \/ CosIsZero(d[1])
    /\ v[2] # Zero => CosIsZero(d[2]) \/ SinIsZero(d[1])
    /\ v[3] # Zero => SinIsZero(d[2])

\* C4: for every merged packet the sum of w_out * sqrt(1 + |p_out|^2) over
\* the two survivors equals the sum of w_in * sqrt(1 + |p_in|^2) over the
\* four members, for arbitrary positive weights and any bin direction;
\* stated here for the calls in which no axis collapses.  Both survivors have
\* the same |p_out|^2 = |v|^2 + perp2 * |e2|^2, and 0 < |e2| < 1 unless e2
\* vanishes or e1 is perpendicular to the bin direction.
EnergyConservation ==
    \A k \in 1..Len(packets) :
        LET pk == packets[k]
            m == pk.p_out[1]
            per_weight == RDiv(EnergyIn(pk), RAdd(pk.w_out[1], pk.w_out[2]))
            \* 1 + |p_out|^2 that conserves the energy
            needed == RMul(per_weight, per_weight)
            along == RAdd(One, VDot(m.v, m.v))
        IN  FullGrid =>
                /\ ~m.nan
                /\ ~pk.p_out[2].nan
                /\ IF m.sgn = 0 THEN needed = along
                   ELSE IF PerpendicularToDirection(m.v, m.d)
                        THEN needed = RAdd(along, m.perp2)
                        ELSE RLt(along, needed) /\ RLt(needed, RAdd(along, m.perp2))

\* C5: a call on a range of at most merging_ppc_min_threshold_ particles, or
\* on a range in which every momentum bin holds fewer than 4 particles,
\* leaves momentum, weight and cell_keys of every particle unchanged.
UntouchedBelowThreshold ==
    /\ pc = "done"
    /\ \/ iend - istart <= merging_ppc_min_threshold_
       \/ \A ic \in 0..(momentum_cells - 1) : Cardinality(InBin(ic)) < 4
    => /\ momentum = entry.momentum
       /\ weight = entry.weight
       /\ \A i \in DOMAIN cell_keys : cell_keys[i] = 0

\* a returned call on four or more particles, above the threshold, that
\* found fewer than 4 particles in every bin
UntouchedBelowThresholdWitness ==
    /\ pc = "done"
    /\ iend - istart >= 4
    /\ iend - istart > merging_ppc_min_threshold_
    /\ \A ic \in 0..(momentum_cells - 1) : Cardinality(InBin(ic)) < 4

(***************************************************************************)
(* RadiationMonteCarlo::operator() and ::photonEmission, as built without  *)
(* _GPU.  The doubles of the kernel are exact rationals.  A moving         *)
(* particle has its momentum along Direction with a magnitude on the       *)
(* ladder                                                                  *)
(*     |p| = 4(m+2)/(m(m+4)),   gamma = 1 + 8/(m(m+4)),   m = 2, 3, ...    *)
(* where sqrt(1 + p^2) is rational, and the tables of RadiationTables are  *)
(* filled so that a recoil moves a particle down the ladder.               *)
(***************************************************************************)
\* most particles in the range of a call
MaxRadParts == 2
\* Radiation::max_monte_carlo_iterations_
max_monte_carlo_iterations_ == 2
\* Radiation::nDim_
nDim_ == 2
\* rows of the tables: ladder levels 2..MaxLevel
MaxLevel == 12
\* a square root that is not rational is rounded down to a multiple of 1/SqrtGrid
SqrtGrid == 16

\* Radiation::dt_
dt_ == One
\* Radiation::epsilon_tau_
epsilon_tau_ == Rat(1, 1000)

LadderMomentum(m) == Rat(4 * (m + 2), m * (m + 4))
LadderGamma(m) == Rat(m * (m + 4) + 8, m * (m + 4))
Direction == <<Rat(2, 3), Rat(-2, 3), Rat(1, 3)>>

\* std::sqrt
SqrtDown(whole, rem, d) ==
    CHOOSE q \in { Rat(ISqrt(whole * SqrtGrid * SqrtGrid + d1 * SqrtGrid
                             + (r1 * SqrtGrid) \div d), SqrtGrid) :
                   d1 \in {(rem * SqrtGrid) \div d}, r1 \in {(rem * SqrtGrid) % d} } : TRUE
Sqrt(r) ==
    CHOOSE q \in { IF IsSquare(x) THEN RSqrt(x)
                   ELSE SqrtDown(x.n \div x.d, x.n % x.d, x.d) : x \in {r} } : TRUE

\* gamma = sqrt( 1 + px^2 + py^2 + pz^2 )
LorentzFactor(p) == Sqrt(RAdd(One, VDot(p, p)))

\* rand_->uniform(): values in [0, 1)
Uniforms == {Zero, Rat(2, 5), Rat(49, 50)}

\* -log( 1. - u ), to the nearest half
MinusLog(u) ==
    CASE u = Zero -> Zero
      [] u = Rat(2, 5) -> Rat(1, 2)
      [] u = Rat(49, 50) -> RInt(4)

\* the field samples: the field is electric, perpendicular to the momentum
Fields == {RInt(2), Rat(7, 8), Rat(1, 2), Rat(1, 100)}

\* Radiation::computeParticleChi for such a field, with |charge|/mass^2 = 1
computeParticleChi(p, g, E) == RMul(g, E)

\* RadiationTables::getMinimumChiDiscontinuous(), ::getMinimumChiContinuous()
getMinimumChiDiscontinuous == One
getMinimumChiContinuous == Rat(1, 10)

\* the rows of the tables, one per particle chi the ladder and the fields give
TableRows ==
    { [chi |-> computeParticleChi(VScale(LadderMomentum(m), Direction), LadderGamma(m), f),
       level |-> m] : m \in 2..MaxLevel, f \in Fields }
TableRow(particle_chi) ==
    CHOOSE r \in UNION { {row \in TableRows : row.chi = c} : c \in {particle_chi} } : TRUE

\* table_integfochi, F(chi): the row of level m gives a yield of 1 (m even)
\* or 2 (m odd) to a particle of that level
integfochi(particle_chi) ==
    CHOOSE F \in { RDiv(RMul(c, RInt(IF m % 2 = 0 THEN 1 ELSE 2)), LadderGamma(m)) :
                   c \in {particle_chi}, m \in {TableRow(particle_chi).level} } : TRUE

\* RadiationTables::computePhotonProductionYield: F(chi) / chi * gamma
computePhotonProductionYield(particle_chi, g) ==
    CHOOSE y \in { RMul(RDiv(integfochi(c), c), g) : c \in {particle_chi} } : TRUE

\* RadiationTables::computeRandomPhotonChiWithInterpolation: the photon takes
\* the particle one level down the ladder for u < 1/2 and two levels otherwise
computeRandomPhotonChiWithInterpolation(particle_chi, u) ==
    CHOOSE photon_chi \in
        { RMul(c, RDiv(RSub(LadderMomentum(m),
                            LadderMomentum(IF RLt(u, Rat(1, 2)) THEN m + 1 ELSE m + 2)),
                       RSub(LadderGamma(m), One))) :
          c \in {particle_chi}, m \in {TableRow(particle_chi).level} } : TRUE

\* RadiationTables::getRidgersCorrectedRadiatedEnergy: power * time, the
\* power taking the particle one level down the ladder in a time dt_
getRidgersCorrectedRadiatedEnergy(particle_chi, time) ==
    CHOOSE energy \in
        { RMul(RDiv(RMul(RSub(LadderMomentum(m), LadderMomentum(m + 1)),
                         LadderMomentum(m)),
                    RMul(LadderGamma(m), dt_)), time) :
          m \in {TableRow(particle_chi).level} } : TRUE

\* Particles::createParticles( n ): n more entries, nothing written in them
Uninitialised ==
    [position |-> "uninitialised", momentum |-> "uninitialised",
     weight |-> "uninitialised", charge |-> "uninitialised",
     chi |-> "uninitialised", tau |-> "uninitialised"]
createParticles(photons, n) == photons \o [k \in 1..n |-> Uninitialised]

(***************************************************************************)
(* The calls of the radiation kernel: the particles of the range, their    *)
(* field samples and the configuration of the species.                     *)
(***************************************************************************)
\* a particle of the call: its ladder level (0 is a particle at rest), its
\* field sample and its tau
RadKind(level, E, t) == [level |-> level, E |-> E, tau |-> t]

\* tau at the call: none pending (-1), a value of (0, epsilon_tau_], one
\* pending (1/2), and one that a whole time step at yield 1 leaves half of
\* epsilon_tau_ of
NotPending == RInt(-1)
Tiny == RMul(Rat(1, 2), epsilon_tau_)
Half == Rat(1, 2)
JustAbove == RAdd(dt_, RMul(Rat(1, 2), epsilon_tau_))

\* particles at rest and particles of level 4: momentum 3/4, gamma 5/4
RadKinds ==
    { RadKind(0, RInt(2), NotPending), RadKind(0, RInt(2), Half),
      \* chi 5/2, above chi_disc_min at every level
      RadKind(4, RInt(2), NotPending), RadKind(4, RInt(2), Half),
      RadKind(4, RInt(2), JustAbove),
      \* chi 35/32, at or below chi_disc_min from level 6 on
      RadKind(4, Rat(7, 8), NotPending),
      \* chi 5/8, between chi_cont_min and chi_disc_min
      RadKind(4, Rat(1, 2), NotPending), RadKind(4, Rat(1, 2), Tiny),
      RadKind(4, Rat(1, 2), Half),
      \* chi 1/80, below chi_cont_min
      RadKind(4, Rat(1, 100), NotPending), RadKind(4, Rat(1, 100), Tiny),
      RadKind(4, Rat(1, 100), Half) }

\* the kinds a range holds several of
Companions == { RadKind(0, RInt(2), NotPending), RadKind(4, Rat(1, 2), NotPending) }

\* ranges of 1..MaxRadParts particles, at most one of them not a companion
RadPopulations ==
    UNION { { pop \in [1..n -> RadKinds] :
                Cardinality({k \in 1..n : pop[k] \notin Companions}) <= 1 } :
            n \in 1..MaxRadParts }

\* photon_species, radiation_photon_sampling_, radiation_photon_gamma_threshold_
\* and the columns of new_photons_
RadConfigs ==
    { [species |-> FALSE, sampling |-> 1, threshold |-> Zero, columns |-> FALSE] }
    \cup { [species |-> TRUE, sampling |-> sp, threshold |-> th, columns |-> co] :
             sp \in {1, 2}, th \in {Zero, Rat(13, 60)}, co \in BOOLEAN }

\* the merger is not running
MergerUnused ==
    /\ cell_keys = << >> /\ merging_ppc_min_threshold_ = 0
    /\ dimensions_ = <<GridSize, GridSize, GridSize>>
    /\ momentum_cell_index = << >> /\ particles_per_momentum_cells = << >>
    /\ momentum_cell_particle_index = << >> /\ sorted_particles = << >>
    /\ cell_vec = << >> /\ loop_cell = 0 /\ ipack = 0 /\ packets = << >>

InitRadiation ==
    /\ \E pop \in RadPopulations, cfg \in RadConfigs :
        LET ids == 0..(Len(pop) - 1)
            p0 == [i \in ids |->
                     Exact(IF pop[i + 1].level = 0 THEN VZero
                           ELSE VScale(LadderMomentum(pop[i + 1].level), Direction))]
            w0 == [i \in ids |-> RInt(i + 2)]
            tau0 == [i \in ids |-> pop[i + 1].tau]
            chi0 == [i \in ids |-> RInt(7)]
        IN  /\ momentum = p0
            /\ weight = w0
            /\ tau = tau0
            /\ chi = chi0
            /\ position = [i \in ids |-> [d \in 1..nDim_ |-> RInt(10 * i + d)]]
            /\ Epart = [k \in 1..Len(pop) |-> pop[k].E]
            /\ istart = 0
            /\ iend = Len(pop)
            /\ photon_species = cfg.species
            /\ radiation_photon_sampling_ = cfg.sampling
            /\ radiation_photon_gamma_threshold_ = cfg.threshold
            /\ isQuantumParameter = cfg.columns
            /\ isMonteCarlo = cfg.columns
            /\ entry = [momentum |-> p0, weight |-> w0, tau |-> tau0, chi |-> chi0,
                        radiated_energy |-> One]
    /\ ipart_ref = 0
    /\ new_photons_ = << >>
    /\ radiated_energy = One
    /\ radiated_energy_loc = Zero
    /\ ipart = 0
    /\ local_it_time = Zero
    /\ mc_it_nb = 0
    /\ nb_substeps = 0
    /\ events = << >>
    /\ pc = "particles"
    /\ MergerUnused
    /\ FactoryUnused
    /\ first_call = NoCall

(***************************************************************************)
(* RadiationMonteCarlo::photonEmission for particle i: the recoil, and     *)
(* either the macro-photons or the energy handed back to the caller.       *)
(***************************************************************************)
\* inv_radiation_photon_sampling_ = 1. / radiation_photon_sampling_
inv_radiation_photon_sampling_ == Rat(1, radiation_photon_sampling_)

\* the new entries with a momentum that is not divided by the norm
MacroPhotonUnnormalised(i, gammaph, photon_chi, p_new, inv_old_norm_p) ==
    [position |-> position[i],
     momentum |-> VScale(gammaph, p_new),
     weight |-> RMul(weight[i], inv_radiation_photon_sampling_),
     charge |-> 0,
     chi |-> IF isQuantumParameter THEN photon_chi ELSE Uninitialised.chi,
     tau |-> IF isMonteCarlo THEN RInt(-1) ELSE Uninitialised.tau]

\* the new entries with the whole weight of the emitter
MacroPhotonWhole(i, gammaph, photon_chi, p_new, inv_old_norm_p) ==
    [position |-> position[i],
     momentum |-> VScale(RMul(gammaph, inv_old_norm_p), p_new),
     weight |-> weight[i],
     charge |-> 0,
     chi |-> IF isQuantumParameter THEN photon_chi ELSE "uninitialised",
     tau |-> IF isMonteCarlo THEN RInt(-1) ELSE "uninitialised"]

\* what the loop over idNew writes in each of the new entries
MacroPhoton(i, gammaph, photon_chi, p_new, inv_old_norm_p) ==
    [position |-> position[i],
     momentum |-> VScale(RMul(gammaph, inv_old_norm_p), p_new),
     weight |-> RMul(weight[i], inv_radiation_photon_sampling_),
     charge |-> 0,
     chi |-> IF isQuantumParameter THEN photon_chi ELSE Uninitialised.chi,
     tau |-> IF isMonteCarlo THEN RInt(-1) ELSE Uninitialised.tau]

\* the else branch with the momentum read as it was before the recoil
ScalarEnergyStale(i, particle_gamma, p_new) ==
    RMul(weight[i], RSub(particle_gamma, LorentzFactor(momentum[i].v)))

\* the else branch: weight * ( particle_gamma - sqrt( 1 + p_new^2 ) )
ScalarEnergy(i, particle_gamma, p_new) ==
    RMul(weight[i], RSub(particle_gamma, LorentzFactor(p_new)))

\* the entries of new_photons_ after createParticles and the loop over idNew
Filled(created, photon) ==
    [idNew \in 1..Len(created) |->
        IF idNew > Len(created) - radiation_photon_sampling_ THEN photon
        ELSE created[idNew]]

\* the call: it writes the momentum and new_photons_, and its return value
\* is added to radiated_energy_loc
photonEmission(i, particle_chi, particle_gamma, random_number) ==
    \E photon_chi \in {computeRandomPhotonChiWithInterpolation(particle_chi, random_number)} :
    \E gammaph \in {RMul(RDiv(photon_chi, particle_chi), RSub(particle_gamma, One))} :
    \E inv_old_norm_p \in
          {RDiv(gammaph, Sqrt(RSub(RMul(particle_gamma, particle_gamma), One)))} :
    \E p_new \in {[c \in 1..3 |-> RSub(momentum[i].v[c],
                                       RMul(momentum[i].v[c], inv_old_norm_p))] \o << >>} :
    \E creates \in {photon_species /\ RLeq(radiation_photon_gamma_threshold_, gammaph)} :
    \E photons \in {IF creates
                    THEN Filled(createParticles(new_photons_, radiation_photon_sampling_),
                                MacroPhoton(i, gammaph, photon_chi, p_new,
                                            RDiv(One, Sqrt(VDot(p_new, p_new)))))
                    ELSE new_photons_} :
    \E energy \in {IF creates THEN Zero ELSE ScalarEnergy(i, particle_gamma, p_new)} :
        /\ momentum' = [momentum EXCEPT ![i] = Exact(p_new)]
        /\ new_photons_' = photons
        /\ radiated_energy_loc' = RAdd(radiated_energy_loc, energy)
        /\ events' = Append(events,
               [kind |-> "emission", ipart |-> i, particle_chi |-> particle_chi,
                gamma |-> particle_gamma, photon_chi |-> photon_chi,
                gammaph |-> gammaph, p_old |-> momentum[i].v, p_new |-> p_new,
                before |-> new_photons_, after |-> photons, energy |-> energy])

(***************************************************************************)
(* RadiationMonteCarlo::operator(): the loop over the particles, one       *)
(* action per pass through the body of the while loop.                     *)
(***************************************************************************)
gamma == LorentzFactor(momentum[ipart].v)
particle_chi == computeParticleChi(momentum[ipart].v, gamma, Epart[ipart - ipart_ref + 1])

\* the loop condition without the cap
WhileTimeLeft == RLt(local_it_time, dt_)
\* ( local_it_time < dt_ ) && ( mc_it_nb < max_monte_carlo_iterations_ )
WhileCondition == RLt(local_it_time, dt_) /\ mc_it_nb < max_monte_carlo_iterations_

Stepping == pc = "particles" /\ ipart < iend /\ WhileCondition

\* the test after the decrement, against 0
EmissionReachedAtZero(t) == RLeq(t, Zero)
\* a test that lets the tie pass without emission
EmissionReachedBelowZero(t) == RLt(t, Zero)
\* if( tau[ipart] <= epsilon_tau_ ) after the decrement
EmissionReached(t) == RLeq(t, epsilon_tau_)

\* the for loop moves to the next particle and resets the scratch
ToNextParticle ==
    /\ ipart' = ipart + 1
    /\ local_it_time' = Zero
    /\ mc_it_nb' = 0
    /\ nb_substeps' = 0

\* a break placed after the draw of the optical depth
SkipAtRestAfterDraw ==
    /\ Stepping
    /\ gamma = One
    /\ ToNextParticle
    /\ IF RLt(getMinimumChiDiscontinuous, particle_chi) /\ RLeq(tau[ipart], epsilon_tau_)
       THEN \E u \in Uniforms : tau' = [tau EXCEPT ![ipart] = MinusLog(u)]
       ELSE tau' = tau
    /\ UNCHANGED << momentum, weight, istart, iend, pc, entry, merger_vars, factory_vars, first_call, chi,
                    position, Epart, ipart_ref, photon_species,
                    radiation_photon_sampling_, radiation_photon_gamma_threshold_,
                    new_photons_, isQuantumParameter, isMonteCarlo, radiated_energy,
                    radiated_energy_loc, events >>

\* gamma == 1.: break
SkipAtRest ==
    /\ Stepping
    /\ gamma = One
    /\ ToNextParticle
    /\ UNCHANGED << momentum, weight, istart, iend, pc, entry, merger_vars, factory_vars, first_call, tau, chi,
                    position, Epart, ipart_ref, photon_species,
                    radiation_photon_sampling_, radiation_photon_gamma_threshold_,
                    new_photons_, isQuantumParameter, isMonteCarlo, radiated_energy,
                    radiated_energy_loc, events >>

\* a draw that does not test tau
ArmWhilePending ==
    /\ Stepping
    /\ gamma # One
    /\ RLt(getMinimumChiDiscontinuous, particle_chi)
    /\ \E u \in Uniforms : tau' = [tau EXCEPT ![ipart] = MinusLog(u)]
    /\ UNCHANGED << momentum, weight, istart, iend, pc, entry, merger_vars, factory_vars, first_call, chi,
                    position, Epart, ipart_ref, photon_species,
                    radiation_photon_sampling_, radiation_photon_gamma_threshold_,
                    new_photons_, isQuantumParameter, isMonteCarlo, radiated_energy,
                    radiated_energy_loc, ipart, local_it_time, mc_it_nb, nb_substeps,
                    events >>

\* one draw of the loop  while( tau[ipart] <= epsilon_tau_ )
Arm ==
    /\ Stepping
    /\ gamma # One
    /\ RLt(getMinimumChiDiscontinuous, particle_chi)
    /\ RLeq(tau[ipart], epsilon_tau_)
    /\ \E u \in Uniforms : tau' = [tau EXCEPT ![ipart] = MinusLog(u)]
    /\ UNCHANGED << momentum, weight, istart, iend, pc, entry, merger_vars, factory_vars, first_call, chi,
                    position, Epart, ipart_ref, photon_species,
                    radiation_photon_sampling_, radiation_photon_gamma_threshold_,
                    new_photons_, isQuantumParameter, isMonteCarlo, radiated_energy,
                    radiated_energy_loc, ipart, local_it_time, mc_it_nb, nb_substeps,
                    events >>

\* an optical depth reset to 0 after the emission
TauResetToZero == Zero
\* tau[ipart] = -1. after the emission
TauReset == RInt(-1)

\* if( tau[ipart] > epsilon_tau_ ): the emission under progress
CountDown ==
    /\ Stepping
    /\ gamma # One
    /\ RLt(epsilon_tau_, tau[ipart])
    /\ \E g \in {gamma} : \E c \in {computeParticleChi(momentum[ipart].v, g,
                                                        Epart[ipart - ipart_ref + 1])} :
       \E temp \in {computePhotonProductionYield(c, g)} :
       \E emission_time \in {RMin(RDiv(tau[ipart], temp), RSub(dt_, local_it_time))} :
       \E t \in {RSub(tau[ipart], RMul(temp, emission_time))} :
          /\ IF EmissionReached(t)
             THEN /\ \E random_number \in Uniforms : photonEmission(ipart, c, g, random_number)
                  /\ tau' = [tau EXCEPT ![ipart] = TauReset]
             ELSE /\ tau' = [tau EXCEPT ![ipart] = t]
                  /\ UNCHANGED << momentum, new_photons_, radiated_energy_loc, events >>
          /\ mc_it_nb' = mc_it_nb + 1
          /\ local_it_time' = RAdd(local_it_time, emission_time)
    /\ nb_substeps' = nb_substeps + 1
    /\ UNCHANGED << weight, istart, iend, pc, entry, merger_vars, factory_vars, first_call, chi, position, Epart,
                    ipart_ref, photon_species, radiation_photon_sampling_,
                    radiation_photon_gamma_threshold_, isQuantumParameter, isMonteCarlo,
                    radiated_energy, ipart >>

\* else if( particle_chi <= chi_disc_min && tau[ipart] <= epsilon_tau_
\*          && particle_chi > chi_cont_min && gamma > 1. )
ContinuousCondition(c, t, g) ==
    /\ RLeq(c, getMinimumChiDiscontinuous)
    /\ RLeq(t, epsilon_tau_)
    /\ RLt(getMinimumChiContinuous, c)
    /\ RLt(One, g)

\* a rescaling that leaves the third component as it was
RescaledPlanar(p, temp) ==
    [d \in 1..3 |-> IF d = 3 THEN p[d] ELSE RSub(p[d], RMul(temp, p[d]))]
\* momentum_x, _y, _z [ipart] -= temp * momentum_x, _y, _z [ipart]
Rescaled(p, temp) == [d \in 1..3 |-> RSub(p[d], RMul(temp, p[d]))]

\* the continuous emission over the rest of the time step
Continuous ==
    /\ Stepping
    /\ gamma # One
    /\ ~RLt(epsilon_tau_, tau[ipart])
    /\ ContinuousCondition(particle_chi, tau[ipart], gamma)
    /\ \E g \in {gamma} : \E c \in {computeParticleChi(momentum[ipart].v, g,
                                                        Epart[ipart - ipart_ref + 1])} :
       \E emission_time \in {RSub(dt_, local_it_time)} :
       \E cont_rad_energy \in {getRidgersCorrectedRadiatedEnergy(c, emission_time)} :
       \E temp \in {RDiv(RMul(cont_rad_energy, g), RSub(RMul(g, g), One))} :
       \E p_new \in {Rescaled(momentum[ipart].v, temp)} :
       \E energy \in {RMul(weight[ipart], RSub(g, LorentzFactor(p_new)))} :
          /\ momentum' = [momentum EXCEPT ![ipart] = Exact(p_new)]
          /\ radiated_energy_loc' = RAdd(radiated_energy_loc, energy)
          /\ events' = Append(events,
                 [kind |-> "continuous", ipart |-> ipart, particle_chi |-> c,
                  gamma |-> g, time |-> emission_time, p_old |-> momentum[ipart].v,
                  p_new |-> p_new, energy |-> energy])
    /\ local_it_time' = dt_
    /\ nb_substeps' = nb_substeps + 1
    /\ UNCHANGED << weight, istart, iend, pc, entry, merger_vars, factory_vars, first_call, tau, chi, position,
                    Epart, ipart_ref, photon_species, radiation_photon_sampling_,
                    radiation_photon_gamma_threshold_, new_photons_, isQuantumParameter,
                    isMonteCarlo, radiated_energy, ipart, mc_it_nb >>

\* else: particle_chi is too low, nothing is emitted
Idle ==
    /\ Stepping
    /\ gamma # One
    /\ ~RLt(epsilon_tau_, tau[ipart])
    /\ ~RLt(getMinimumChiDiscontinuous, particle_chi)
    /\ ~ContinuousCondition(particle_chi, tau[ipart], gamma)
    /\ local_it_time' = dt_
    /\ nb_substeps' = nb_substeps + 1
    /\ UNCHANGED << momentum, weight, istart, iend, pc, entry, merger_vars, factory_vars, first_call, tau, chi,
                    position, Epart, ipart_ref, photon_species,
                    radiation_photon_sampling_, radiation_photon_gamma_threshold_,
                    new_photons_, isQuantumParameter, isMonteCarlo, radiated_energy,
                    radiated_energy_loc, ipart, mc_it_nb, events >>

\* the while loop ends: the time step is used up or the cap is reached
NextParticle ==
    /\ pc = "particles"
    /\ ipart < iend
    /\ ~WhileCondition
    /\ ToNextParticle
    /\ UNCHANGED << momentum, weight, istart, iend, pc, entry, merger_vars, factory_vars, first_call, tau, chi,
                    position, Epart, ipart_ref, photon_species,
                    radiation_photon_sampling_, radiation_photon_gamma_threshold_,
                    new_photons_, isQuantumParameter, isMonteCarlo, radiated_energy,
                    radiated_energy_loc, events >>

\* the post-pass value: chi of the momentum as it now is
EntryChi(i) ==
    computeParticleChi(entry.momentum[i].v, LorentzFactor(entry.momentum[i].v),
                       Epart[i - ipart_ref + 1])
\* chi[ipart] = Radiation::computeParticleChi( ... ) of the second loop
PostPassChi(i) ==
    computeParticleChi(momentum[i].v, LorentzFactor(momentum[i].v),
                       Epart[i - ipart_ref + 1])

\* radiated_energy += radiated_energy_loc, then the update of chi
PostPass ==
    /\ pc = "particles"
    /\ ipart = iend
    /\ radiated_energy' = RAdd(radiated_energy, radiated_energy_loc)
    /\ chi' = [i \in DOMAIN chi |-> IF i >= istart /\ i < iend THEN PostPassChi(i)
                                     ELSE chi[i]]
    /\ pc' = "exit"
    /\ UNCHANGED << momentum, weight, istart, iend, entry, merger_vars, factory_vars, first_call, tau,
                    position,
                    Epart, ipart_ref, photon_species, radiation_photon_sampling_,
                    radiation_photon_gamma_threshold_, new_photons_, isQuantumParameter,
                    isMonteCarlo, radiated_energy_loc, ipart, local_it_time, mc_it_nb,
                    nb_substeps, events >>

NextRadiation ==
    \/ SkipAtRest
    \/ Arm
    \/ CountDown
    \/ Continuous
    \/ Idle
    \/ NextParticle
    \/ PostPass

SpecRadiation == InitRadiation /\ [][NextRadiation]_vars

\* The kernel runs on: the loops are sequential code.  A draw of the arming
\* loop ends above epsilon_tau_ with probability 1, so the loop is not taken
\* to draw values at or below epsilon_tau_ for ever.
SpecRadiationFair ==
    /\ InitRadiation
    /\ [][NextRadiation]_vars
    /\ WF_vars(NextRadiation)
    /\ WF_vars(Arm /\ RLt(epsilon_tau_, tau'[ipart]))

(***************************************************************************)
(* Properties of the radiation kernel.                                     *)
(***************************************************************************)
RadRange == istart..(iend - 1)
\* tau <= 0 or tau > epsilon_tau_
OutsideGap(t) == RLeq(t, Zero) \/ RLt(epsilon_tau_, t)
EmissionsOf(i) ==
    {k \in 1..Len(events) : events[k].kind = "emission" /\ events[k].ipart = i}
\* the emission took the branch that creates macro-photons
Creates(e) == photon_species /\ RLeq(radiation_photon_gamma_threshold_, e.gammaph)

RECURSIVE EnergySum(_)
EnergySum(k) == IF k = 0 THEN Zero ELSE RAdd(EnergySum(k - 1), events[k].energy)

ChiPostPass ==
    /\ pc = "particles" => chi = entry.chi
    /\ pc = "exit" =>
          \A i \in RadRange :
              chi[i] = computeParticleChi(momentum[i].v, LorentzFactor(momentum[i].v),
                                          Epart[i - ipart_ref + 1])

\* at exit, with a particle whose momentum the call changed, one at rest and
\* one stopped by the cap
ChiPostPassWitness ==
    /\ pc = "exit"
    /\ \E i \in RadRange : momentum[i] # entry.momentum[i]
                            /\ Cardinality(EmissionsOf(i)) = max_monte_carlo_iterations_
    /\ \E i \in RadRange : momentum[i].v = VZero

SubStepBound ==
    /\ nb_substeps <= max_monte_carlo_iterations_
    /\ mc_it_nb <= max_monte_carlo_iterations_
    /\ \A i \in RadRange : Cardinality(EmissionsOf(i)) <= max_monte_carlo_iterations_

\* a step that runs the body of the while loop to its end (a draw of the
\* arming loop stays inside the body)
SubStep == Stepping /\ ~(ipart' = ipart /\ nb_substeps' = nb_substeps)

\* a step taken once the cap is reached
AtCap == pc = "particles" /\ ipart < iend /\ mc_it_nb = max_monte_carlo_iterations_

\* C10: for every particle the sub-step loop terminates: it runs at most
\* max_monte_carlo_iterations_ sub-steps, hence at most that many emissions
\* per particle and call; every sub-step increments the iteration counter,
\* sets the local time to dt_ or breaks; reaching the cap ends the particle
\* with nothing else written, tau pending or not; and the call reaches its exit.
SubStepLoopTerminates ==
    /\ []SubStepBound
    /\ [][SubStep => \/ mc_it_nb' = mc_it_nb + 1
                     \/ local_it_time' = dt_
                     \/ ipart' = ipart + 1]_vars
    /\ [][AtCap => /\ ipart' = ipart + 1
                   /\ tau' = tau /\ momentum' = momentum /\ pc' = pc]_vars
    /\ <>(pc = "exit")

\* the cap alone ends a particle: time is left in the step
SubStepLoopTerminatesWitness ==
    /\ AtCap
    /\ RLt(local_it_time, dt_)
    /\ Cardinality(EmissionsOf(ipart)) = max_monte_carlo_iterations_

\* the particle of the running sub-step is in continuous mode
InContinuousMode ==
    /\ Stepping
    /\ gamma # One
    /\ ContinuousCondition(particle_chi, tau[ipart], gamma)

\* 1 - E_rad * gamma / (gamma^2 - 1), E_rad the Ridgers energy of the rest of
\* the time step
ContinuousFactor ==
    RSub(One, RDiv(RMul(getRidgersCorrectedRadiatedEnergy(particle_chi,
                                                          RSub(dt_, local_it_time)),
                        gamma),
                   RSub(RMul(gamma, gamma), One)))

\* C11: a sub-step of a particle in continuous mode (chi_cont_min < chi <=
\* chi_disc_min, tau <= epsilon_tau_, gamma > 1) multiplies the three
\* momentum components by the one scalar 1 - E_rad*gamma/(gamma^2 - 1),
\* leaves tau and new_photons_ as they are and sets the local time to dt_,
\* after which no further sub-step runs for the particle.
ContinuousFrame ==
    [][InContinuousMode =>
          /\ momentum' = [momentum EXCEPT
                             ![ipart] = Exact(VScale(ContinuousFactor, momentum[ipart].v))]
          /\ tau' = tau
          /\ new_photons_' = new_photons_
          /\ local_it_time' = dt_
          /\ ipart' = ipart
          /\ ~Stepping']_vars

\* a continuous sub-step has run over what an emission left of the time
\* step, after macro-photons were created
ContinuousFrameWitness ==
    /\ pc = "particles" /\ ipart < iend
    /\ local_it_time = dt_
    /\ new_photons_ # << >>
    /\ \E k \in 1..Len(events) :
          /\ events[k].kind = "continuous" /\ events[k].ipart = ipart
          /\ events[k].time # dt_
          /\ events[k].p_new # events[k].p_old

(***************************************************************************)
(* The species are created one after the other; each asks the factory for  *)
(* its merger.                                                             *)
(***************************************************************************)
InitFactory ==
    /\ \E n \in 1..MaxSpecies : merging_method_ \in [1..n -> MethodNames]
    /\ Merge = << >>
    /\ pc = "factory"
    /\ momentum = << >> /\ weight = << >> /\ istart = 0 /\ iend = 0
    /\ entry = << >>
    /\ MergerUnused
    /\ RadiationUnused
    /\ first_call = NoCall

\* Merge = MergingFactory::create( params, species ) of the next species
Create ==
    /\ pc = "factory"
    /\ Len(Merge) < Len(merging_method_)
    /\ Merge' = Append(Merge, create(merging_method_[Len(Merge) + 1]))
    /\ UNCHANGED << momentum, weight, istart, iend, pc, entry, merger_vars,
                    radiation_vars, merging_method_, first_call >>

NextFactory == Create

SpecFactory == InitFactory /\ [][NextFactory]_vars

\* C12: MergingFactory::create returns a Vranic merger if and only if the
\* species' merging_method_ is "vranic"; for every other name it returns
\* NULL and raises nothing.
FactoryCreatesVranicOnly ==
    \A k \in 1..Len(Merge) :
        /\ Merge[k].merger = "MergingVranic" <=> merging_method_[k] = Vranic
        /\ merging_method_[k] # Vranic =>
               Merge[k].merger = "NULL" /\ ~Merge[k].raised

\* the factory has served a species asking for "vranic" and one asking for
\* "Vranic"
FactoryCreatesVranicOnlyWitness ==
    /\ Len(Merge) = 2
    /\ merging_method_[1] = Vranic /\ Merge[1].merger = "MergingVranic"
    /\ merging_method_[2] = <<"V", "r", "a", "n", "i", "c">> /\ Merge[2].merger = "NULL"

(***************************************************************************)
(* The merger on the cross of four particles.                              *)
(***************************************************************************)
\* the call is on the four particles (1,0,0), (0,1,0), (-1,0,0), (0,-1,0)
CrossCall ==
    /\ iend - istart = 4
    /\ \A k \in 1..4 : /\ entry.momentum[istart + k - 1] = Exact(CrossParticles[k].p)
                        /\ entry.weight[istart + k - 1] = One

\* C13, as stated: the merger (threshold below 4, 5x5x5 bins) merges the
\* four particles as one packet: two survive with weight 2 each and momenta
\* that sum to zero, the other two are marked dead.
CrossMergedAsOnePacket ==
    (CrossCall /\ pc = "done" /\ EnoughParticles) =>
        /\ Len(packets) = 1
        /\ \E a, b \in Range :
              /\ a # b
              /\ weight[a] = RInt(2) /\ weight[b] = RInt(2)
              /\ ~momentum[a].nan /\ ~momentum[b].nan
              /\ VAdd(momentum[a].v, momentum[b].v) = VZero
              /\ \A i \in Range \ {a, b} : cell_keys[i] = -1

\* C13, amended: the merger merges none of the four particles.  The radial
\* and the phi axis collapse and the particles get the theta indices 1, 3, 4
\* and 0, so they are in four different bins: no packet is formed, and the
\* momenta, weights and cell_keys of the store stay as they were at the call.
CrossNotMerged ==
    CrossCall =>
        /\ packets = << >>
        /\ momentum = entry.momentum
        /\ weight = entry.weight
        /\ \A i \in DOMAIN cell_keys : cell_keys[i] = 0
        /\ (pc \in {"merge", "done"} /\ EnoughParticles) =>
              /\ dimensions_ = <<1, GridSize, 1>>
              /\ \A i, j \in Range : i # j => momentum_cell_index[i - istart + 1]
                                                  # momentum_cell_index[j - istart + 1]
              /\ \A ic \in DOMAIN particles_per_momentum_cells :
                     particles_per_momentum_cells[ic] <= 1

\* the call on the cross went through the sort and the merge loops and returned
CrossNotMergedWitness ==
    /\ CrossCall
    /\ pc = "done"
    /\ EnoughParticles
    /\ sorted_particles # << >>

(***************************************************************************)
(* Arming, count-down and emission of one particle.                        *)
(***************************************************************************)
\* particle i entered the call with chi > chi_disc_min and tau <= epsilon_tau_
ArmedAtEntry(i) ==
    /\ RLt(getMinimumChiDiscontinuous,
           computeParticleChi(entry.momentum[i].v, LorentzFactor(entry.momentum[i].v),
                              Epart[i - ipart_ref + 1]))
    /\ RLeq(entry.tau[i], epsilon_tau_)

\* the step is a photon emission
EmissionStep ==
    /\ Len(events') = Len(events) + 1
    /\ events'[Len(events')].kind = "emission"

\* the step ends the sub-stepping of particle ipart
ParticleEnds == pc = "particles" /\ ipart < iend /\ ipart' = ipart + 1

\* C14, as stated: a particle with chi > chi_disc_min and tau <=
\* epsilon_tau_ at entry that has emitted during the call has tau = -1 at
\* exit, also when the emission happened before the local time reached dt_
\* and iterations remained.
TauResetAtExit ==
    pc = "exit" =>
        \A i \in RadRange :
            (ArmedAtEntry(i) /\ EmissionsOf(i) # {}) => tau[i] = RInt(-1)

\* C14, amended: such a particle is armed in its first sub-step (only tau is
\* written, by a draw), then counted down; the emission leaves tau = -1; and
\* when its sub-stepping ends tau is -1 exactly when every count-down of the
\* call ended in an emission, and otherwise the kernel has re-armed tau and
\* counted it down to the end of the time step, where it stays > epsilon_tau_
\* until the exit of the call.
TauResetUnlessRearmed ==
    /\ [][(Stepping /\ nb_substeps = 0 /\ ArmedAtEntry(ipart) /\ gamma # One
              /\ RLeq(tau[ipart], epsilon_tau_)) =>
             /\ \E u \in Uniforms : tau' = [tau EXCEPT ![ipart] = MinusLog(u)]
             /\ momentum' = momentum /\ events' = events
             /\ ipart' = ipart /\ mc_it_nb' = mc_it_nb]_vars
    /\ [][EmissionStep => tau' = [tau EXCEPT ![ipart] = RInt(-1)]]_vars
    /\ [][(ParticleEnds /\ ArmedAtEntry(ipart) /\ EmissionsOf(ipart) # {}) =>
             /\ tau' = tau
             /\ IF Cardinality(EmissionsOf(ipart)) = mc_it_nb
                THEN tau[ipart] = RInt(-1)
                ELSE RLt(epsilon_tau_, tau[ipart]) /\ local_it_time = dt_]_vars
    /\ [][\A i \in RadRange : i < ipart => tau'[i] = tau[i]]_vars

\* at exit, a particle armed at entry has emitted before the end of the time
\* step, was armed again and is left with an emission pending
TauResetUnlessRearmedWitness ==
    /\ pc = "exit"
    /\ \E i \in RadRange :
          /\ ArmedAtEntry(i)
          /\ EmissionsOf(i) # {}
          /\ RLt(epsilon_tau_, tau[i])

(***************************************************************************)
(* The count-down sub-step.                                                *)
(***************************************************************************)
\* the particle of the running sub-step is counted down
InCountDown == Stepping /\ gamma # One /\ RLt(epsilon_tau_, tau[ipart])

\* tau / yield and the remaining time dt_ - local_it_time
TimeToEmission == RDiv(tau[ipart], computePhotonProductionYield(particle_chi, gamma))
RemainingTime == RSub(dt_, local_it_time)
\* tau after a decrement over the whole remaining time
TauAtEndOfStep ==
    RSub(tau[ipart], RMul(computePhotonProductionYield(particle_chi, gamma), RemainingTime))

\* C15, as stated: in a count-down sub-step, if tau/yield <= remaining time
\* (equality included) the decrement brings tau to <= epsilon_tau_ and the
\* photon is emitted in that sub-step; if tau/yield > remaining time there is
\* no emission and tau stays > epsilon_tau_.
EmissionIffTimeReached ==
    [][InCountDown =>
          IF RLeq(TimeToEmission, RemainingTime)
          THEN EmissionStep /\ tau'[ipart] = RInt(-1)
          ELSE ~EmissionStep /\ RLt(epsilon_tau_, tau'[ipart])]_vars

\* C15, amended: in a count-down sub-step, if tau/yield <= remaining time
\* (equality included) the photon is emitted in that sub-step; if tau/yield
\* > remaining time the decrement leaves tau - yield * remaining time, and
\* the photon is emitted in that sub-step as well when this is <=
\* epsilon_tau_; only when it is > epsilon_tau_ is there no emission, and tau
\* keeps that value.
EmissionIffWithinEpsilon ==
    [][InCountDown =>
          /\ ipart' = ipart
          /\ mc_it_nb' = mc_it_nb + 1
          /\ IF RLeq(TimeToEmission, RemainingTime) \/ RLeq(TauAtEndOfStep, epsilon_tau_)
             THEN EmissionStep /\ tau' = [tau EXCEPT ![ipart] = RInt(-1)]
             ELSE /\ ~EmissionStep /\ events' = events /\ momentum' = momentum
                  /\ tau' = [tau EXCEPT ![ipart] = TauAtEndOfStep]
                  /\ RLt(epsilon_tau_, tau'[ipart])
                  /\ local_it_time' = dt_]_vars

\* a particle whose tau/yield was above the whole time step by half of
\* epsilon_tau_ has emitted at the end of its first sub-step
EmissionIffWithinEpsilonWitness ==
    /\ pc = "particles" /\ ipart < iend
    /\ entry.tau[ipart] = JustAbove
    /\ mc_it_nb = 1 /\ local_it_time = dt_
    /\ Cardinality(EmissionsOf(ipart)) = 1
    /\ tau[ipart] = RInt(-1)

(***************************************************************************)
(* The bins of the assignment pass and the bins of the merge pass.         *)
(***************************************************************************)
\* the packets merged out of the particles of bin ic
PacketsOfBin(ic) == {k \in 1..Len(packets) : packets[k].members[1] \in InBin(ic)}

\* C16: on a returned call every bin to which the assignment pass gave at
\* least 4 particles has been visited by the merge pass and has its packets
\* merged, also when the theta or the phi axis has collapsed and the radial
\* axis has not: the key of the assignment and the index of the loops over
\* the bins denote the same bin.
EveryFullBinMerged ==
    (pc = "done" /\ EnoughParticles) =>
        \A ic \in 0..(momentum_cells - 1) :
            Cardinality(InBin(ic)) >= 4 =>
                Cardinality(PacketsOfBin(ic)) = Cardinality(InBin(ic)) \div 4

\* the particles that are members #2 and #3 of a merged packet
DeadMembers ==
    UNION {{packets[k].members[3], packets[k].members[4]} : k \in 1..Len(packets)}

\* C17: after every merged packet, of every index ipack within its bin, the
\* particles tagged cell_keys = -1 are exactly the members #2 and #3 of the
\* packets merged so far; every other particle keeps its cell_keys.
TaggedExactlyDeadMembers ==
    \A i \in DOMAIN cell_keys :
        IF i \in DeadMembers THEN cell_keys[i] = -1
        ELSE cell_keys[i] = 0

\* the counting sort of the call has run
SortDone ==
    \/ pc = "merge"
    \/ pc = "done" /\ EnoughParticles
    \/ pc = "fault" /\ packets # << >>

\* the key of particle i of the range
KeyOf(i) == momentum_cell_index[i - istart + 1].s

\* the histogram of the keys, as the third step counts it
HistogramCounts == Histogram(momentum_cell_index, 1, ZeroCells)

\* C18: after the counting sort, sorted_particles is a permutation of
\* istart..iend-1; the particles of each bin fill the slice
\* [offset(bin), offset(bin) + count(bin)); keys do not decrease along the
\* array and, within a bin, original indices increase; the counts rebuilt by
\* the scatter equal the histogram counts.
CountingSortStable ==
    SortDone =>
        LET n == iend - istart
        IN  /\ DOMAIN sorted_particles = 0..(n - 1)
            /\ {sorted_particles[k] : k \in 0..(n - 1)} = Range
            /\ \A k \in 0..(n - 1) :
                   LET ic == KeyOf(sorted_particles[k])
                   IN  /\ momentum_cell_particle_index[ic] <= k
                       /\ k < momentum_cell_particle_index[ic] + HistogramCounts[ic]
            /\ \A k, l \in 0..(n - 1) :
                   k < l =>
                       \/ KeyOf(sorted_particles[k]) < KeyOf(sorted_particles[l])
                       \/ /\ KeyOf(sorted_particles[k]) = KeyOf(sorted_particles[l])
                          /\ sorted_particles[k] < sorted_particles[l]
            /\ particles_per_momentum_cells = HistogramCounts

\* a sorted range with two bins in use, one of them holding several
\* particles, whose order differs from the original order
CountingSortStableWitness ==
    /\ SortDone
    /\ \E k, l \in 0..(iend - istart - 1) :
           /\ k < l /\ sorted_particles[k] > sorted_particles[l]
           /\ \E m \in 0..(iend - istart - 1) :
                  m # l /\ KeyOf(sorted_particles[m]) = KeyOf(sorted_particles[l])

\* the call went past the threshold test and computed the keys
KeysComputed == pc # "ready" /\ EnoughParticles

\* C19: for every particle of the range the per-axis bin indices lie in
\* [0, N_axis - 1], a collapsed axis giving index 0, so that the flattened
\* key is smaller than the number of momentum cells and every histogram
\* access is in bounds.
KeysInBounds ==
    KeysComputed =>
        /\ pc # "fault" \/ packets # << >>
        /\ \A ip \in 1..(iend - istart) :
               /\ UInRange(momentum_cell_index[ip], momentum_cells)
               /\ momentum_cell_index[ip].s
                      < dimensions_[1] * dimensions_[2] * dimensions_[3]

\* the same statement for the calls in which no axis collapses
KeysInBoundsOnFullGrid == FullGrid => KeysInBounds

\* u and v point in the same direction: u x v = 0 and u . v > 0
Parallel(u, v) ==
    /\ RMul(u[1], v[2]) = RMul(u[2], v[1])
    /\ RMul(u[2], v[3]) = RMul(u[3], v[2])
    /\ RMul(u[3], v[1]) = RMul(u[1], v[3])
    /\ RLt(Zero, VDot(u, v))

\* the emissions that appended macro-photons with chi_photon <= chi_particle
PhotonEvents ==
    {k \in 1..Len(events) :
        /\ events[k].kind = "emission"
        /\ Creates(events[k])
        /\ RLeq(events[k].photon_chi, events[k].particle_chi)}

\* C20: every macro-photon appended by an emission with
\* chi_photon <= chi_particle has a momentum of magnitude gamma_photon that
\* points in the direction the emitter's momentum had before the recoil.
PhotonAlongEmitter ==
    \A k \in PhotonEvents :
        LET e == events[k]
        IN  \A j \in (Len(e.before) + 1)..Len(e.after) :
                /\ VDot(e.after[j].momentum, e.after[j].momentum)
                       = RMul(e.gammaph, e.gammaph)
                /\ Parallel(e.after[j].momentum, e.p_old)

\* an emission whose recoil changed the momentum has appended macro-photons
PhotonAlongEmitterWitness ==
    \E k \in PhotonEvents :
        /\ events[k].p_new # events[k].p_old
        /\ Len(events[k].after) > Len(events[k].before)
        /\ RLt(events[k].photon_chi, events[k].particle_chi)

\* a sub-step starts on a particle with gamma exactly 1
AtRestAtSubStep == Stepping /\ gamma = One

\* C21: a particle with gamma exactly 1 at the start of a sub-step is
\* skipped: its momentum and tau are unchanged (no optical depth is drawn,
\* even with tau <= epsilon_tau_), no photon is appended, nothing is added to
\* the radiated energy, and the kernel moves to the next particle.
SkippedAtRest ==
    [][AtRestAtSubStep =>
          /\ momentum' = momentum
          /\ tau' = tau
          /\ new_photons_' = new_photons_
          /\ radiated_energy_loc' = radiated_energy_loc
          /\ radiated_energy' = radiated_energy
          /\ events' = events
          /\ ipart' = ipart + 1]_vars

\* the kernel has passed a particle at rest whose tau is at most
\* epsilon_tau_ in a field that puts chi above chi_disc_min, after an
\* emission of an earlier particle
SkippedAtRestWitness ==
    /\ pc = "particles"
    /\ events # << >>
    /\ \E i \in istart..(ipart - 1) :
          /\ LorentzFactor(momentum[i].v) = One
          /\ RLeq(tau[i], epsilon_tau_)
          /\ RLt(getMinimumChiDiscontinuous,
                 computeParticleChi(momentum[i].v, One, Epart[i - ipart_ref + 1]))

(***************************************************************************)
(* Two merger calls of the same object on the same particle data: after    *)
(* the first call has returned the caller notes what it left, puts the      *)
(* particle columns back as they were and calls again.  dimensions_ is a    *)
(* member and keeps what the first call left in it; the vectors of the call *)
(* are locals and are built anew.                                          *)
(***************************************************************************)
CallAgain ==
    /\ pc = "done"
    /\ first_call = NoCall
    /\ first_call' = [momentum |-> momentum, weight |-> weight, cell_keys |-> cell_keys,
                      momentum_cell_index |-> momentum_cell_index,
                      dimensions_ |-> dimensions_, packets |-> Len(packets)]
    /\ momentum' = entry.momentum
    /\ weight' = entry.weight
    /\ cell_keys' = [i \in DOMAIN cell_keys |-> 0]
    /\ pc' = "ready"
    /\ loop_cell' = 0
    /\ ipack' = 0
    /\ packets' = << >>
    /\ UNCHANGED << istart, iend, entry, merging_ppc_min_threshold_, dimensions_,
                    momentum_cell_index, particles_per_momentum_cells,
                    momentum_cell_particle_index, sorted_particles, cell_vec >>
    /\ UNCHANGED << radiation_vars, factory_vars >>

\* most particles in the range of a call that is made twice
MaxTwice == 8

\* the calls of the merger on the smaller ranges
InitTwice == Init /\ iend - istart <= MaxTwice

NextTwice == Enter \/ MergePacket \/ Return \/ CallAgain

SpecTwice == InitTwice /\ [][NextTwice]_vars

\* the second call has returned, with the bin indices of the first call
SecondCallReturned ==
    /\ first_call # NoCall
    /\ pc = "done"
    /\ momentum_cell_index = first_call.momentum_cell_index

\* C22: two merger calls on identical particle data and range leave
\* identical momentum, weight and cell_keys, whatever the first call left in
\* the object (a collapsed axis included); stated for the pairs of calls in
\* which the conversions of the bin indices gave the same keys.
SecondCallSame ==
    SecondCallReturned =>
        /\ momentum = first_call.momentum
        /\ weight = first_call.weight
        /\ cell_keys = first_call.cell_keys

\* the part of C22 about the grid: the second call uses the grid of the
\* first, though the first left collapsed dimensions in the object
SecondCallSameGrid ==
    (first_call # NoCall /\ pc \in {"merge", "done"} /\ EnoughParticles) =>
        /\ dimensions_ = first_call.dimensions_
        /\ Len(packets) <= first_call.packets

RECURSIVE LiveWeight(_, _, _)
\* the sum of w[i] over the particles istart..last whose keys[i] is not -1
LiveWeight(w, keys, last) ==
    IF last < istart THEN Zero
    ELSE RAdd(LiveWeight(w, keys, last - 1),
              IF keys[last] = -1 THEN Zero ELSE w[last])

\* C23: over a whole merger call on a range with no dead particle at entry,
\* the weights of the particles of the range that are not tagged
\* cell_keys = -1 after the call sum to the weights of the range before the
\* call, whatever the distribution of the particles over the bins.
LiveWeightConserved ==
    pc = "done" =>
        LiveWeight(weight, cell_keys, iend - 1)
            = LiveWeight(entry.weight, [i \in DOMAIN cell_keys |-> 0], iend - 1)

\* the same statement for the calls that merge at most one packet per bin
LiveWeightConservedFirstPackets ==
    (\A k \in 1..Len(packets) : packets[k].ipack = 0) => LiveWeightConserved

\* the positions of sorted_particles read for packet pk: four for the sums
\* and the survivors, two for the tagging
PositionsRead(pk) ==
    {momentum_cell_particle_index[pk.ic] + pk.ipack * 4 + ip : ip \in 0..3}
        \cup {DeadPosition(pk.ic, pk.ipack, 2), DeadPosition(pk.ic, pk.ipack, 3)}

\* C24: every read of sorted_particles of the merge pass is at a position of
\* [0, iend - istart) and yields a particle of [istart, iend), for every
\* packet of every bin: nothing outside the range is read or written.
MergeReadsInRange ==
    \A k \in 1..Len(packets) :
        /\ \A pos \in PositionsRead(packets[k]) : pos >= 0 /\ pos < iend - istart
        /\ \A j \in 1..4 : packets[k].members[j] \in Range
        /\ \A j \in 1..2 : packets[k].dead[j] \in Range

\* the same statement for the first packet of each bin
FirstPacketReadsInRange ==
    (\A k \in 1..Len(packets) : packets[k].ipack = 0) => MergeReadsInRange

(***************************************************************************)
(* Two calls of the radiation kernel on the same range, one time step      *)
(* after the other: the particle columns stay as the first call left them, *)
(* the fields are interpolated anew, the locals start again.               *)
(***************************************************************************)
\* the momentum is at rest or on a level of the ladder from which a whole
\* call stays on the rows of the tables
WithinTables(p) ==
    \/ p = VZero
    \/ \E m \in 2..(MaxLevel - 2 * max_monte_carlo_iterations_ - 1) :
           p = VScale(LadderMomentum(m), Direction)

RadiationAgain ==
    /\ pc = "exit"
    /\ first_call = NoCall
    /\ \A i \in istart..(iend - 1) : WithinTables(momentum[i].v)
    /\ first_call' = [entry |-> entry, tau |-> tau, momentum |-> momentum,
                      events |-> Len(events)]
    /\ entry' = [momentum |-> momentum, weight |-> weight, tau |-> tau, chi |-> chi,
                 radiated_energy |-> radiated_energy]
    /\ \E E \in Fields : Epart' = [k \in DOMAIN Epart |-> E]
    /\ radiated_energy_loc' = Zero
    /\ ipart' = istart
    /\ local_it_time' = Zero
    /\ mc_it_nb' = 0
    /\ nb_substeps' = 0
    /\ pc' = "particles"
    /\ UNCHANGED << momentum, weight, istart, iend, merger_vars, factory_vars, tau, chi,
                    position, ipart_ref, photon_species, radiation_photon_sampling_,
                    radiation_photon_gamma_threshold_, new_photons_, isQuantumParameter,
                    isMonteCarlo, radiated_energy, events >>

\* the calls on one particle, of a species without photon species or with
\* one that takes one macro-photon per emission whatever its energy
InitRadiationCalls ==
    /\ InitRadiation
    /\ iend - istart = 1
    /\ photon_species =>
           /\ radiation_photon_sampling_ = 1
           /\ radiation_photon_gamma_threshold_ = Zero
           /\ isMonteCarlo

NextRadiationCalls == NextRadiation \/ RadiationAgain

SpecRadiationCalls == InitRadiationCalls /\ [][NextRadiationCalls]_vars

\* tau of particle ipart after the decrement of a count-down sub-step
CountedDown ==
    RSub(tau[ipart], RMul(computePhotonProductionYield(particle_chi, gamma),
                          RMin(TimeToEmission, RemainingTime)))

\* the step is a sub-step of the count-down branch on particle ipart
CountDownStep ==
    /\ mc_it_nb' = mc_it_nb + 1
    /\ ipart' = ipart
    /\ tau' = [tau EXCEPT ![ipart] = IF EmissionReached(CountedDown) THEN RInt(-1)
                                      ELSE CountedDown]

\* C25: over the calls of the kernel a tau above epsilon_tau_ is never drawn
\* again: tau changes by a draw only in a sub-step that starts with
\* tau <= epsilon_tau_ and chi > chi_disc_min; a pending tau changes by the
\* count-down only, is left as it is between two calls, and a sub-step on
\* it is a count-down sub-step whatever chi is, never the continuous or the
\* idle branch.
PendingTauNeverRedrawn ==
    /\ [][\A i \in RadRange :
             (RLt(epsilon_tau_, tau[i]) /\ tau'[i] # tau[i]) =>
                 i = ipart /\ InCountDown /\ CountDownStep]_vars
    /\ [][(tau' # tau /\ mc_it_nb' = mc_it_nb) =>
             /\ Stepping
             /\ RLeq(tau[ipart], epsilon_tau_)
             /\ RLt(getMinimumChiDiscontinuous, particle_chi)
             /\ \E u \in Uniforms : tau' = [tau EXCEPT ![ipart] = MinusLog(u)]]_vars
    /\ [][InCountDown => CountDownStep]_vars
    /\ [][pc = "exit" => tau' = tau]_vars

\* in the second call a tau drawn in the first call, and left pending at its
\* end, has been counted down in a field that puts chi at or below
\* chi_disc_min
PendingTauNeverRedrawnWitness ==
    /\ first_call # NoCall
    /\ pc = "particles" /\ ipart < iend
    /\ mc_it_nb = 1
    /\ RLeq(first_call.entry.tau[ipart], epsilon_tau_)
    /\ RLt(epsilon_tau_, first_call.tau[ipart])
    /\ RLt(epsilon_tau_, tau[ipart])
    /\ RLt(tau[ipart], first_call.tau[ipart])
    /\ RLeq(particle_chi, getMinimumChiDiscontinuous)


============================================================================
